---------------------------- MODULE Spec2Model ----------------------------
(***************************************************************************)
(* Model of the automatic player of mahjong-helper: the decision engine    *)
(* (AutoPlayer.MakeDecision and the three discard strategies), the         *)
(* execution gate (AutoPlayer.ExecuteDecision) and the process-wide        *)
(* configuration they read.                                                *)
(*                                                                         *)
(* Fixed point: every float64 of the source (confidence, risk, threshold,  *)
(* delay) is kept in hundredths, so 0.85 is 85 and 0.85 * 0.8 is 68.       *)
(***************************************************************************)
EXTENDS Integers, Sequences, FiniteSets, TLC

VARIABLES
    autoPlayerConfig,   \* the global autoPlayerConfig; globalAutoPlayer.config points at it
    pc,                 \* where the single thread of control is
    call,               \* arguments and analyser answers of the MakeDecision call in progress
    decision,           \* the Decision MakeDecision returned
    globalActionSender, \* "nil", or the attached ActionSenderInterface
    exec,               \* the ExecuteDecision call in progress: what it did and returned
    configPath,         \* what the file at getConfigPath() holds
    cfgOp,              \* the configuration-store call in progress and the error it returns
    writer,             \* a goroutine inside SetAutoPlayerConfig
    reader,             \* a goroutine inside GetAutoPlayerConfig
    handTiles34,        \* interact: tiles34, the hand
    leftTiles34,        \* interact: the tiles not yet seen, per category
    numRedFives,        \* interact: playerInfo.NumRedFives, per suit
    discardTiles,       \* interact: playerInfo.DiscardTiles
    loop,               \* interact: where the loop stands and what it last read
    posted              \* the requests sendAction has posted to the server

decideVars == <<call, decision>>
execVars == <<globalActionSender, exec>>
storeVars == <<configPath, cfgOp>>
raceVars == <<writer, reader>>
loopVars == <<handTiles34, leftTiles34, numRedFives, discardTiles, loop>>
wireVars == <<posted>>
otherVars == <<storeVars, raceVars, loopVars, wireVars>>
vars == <<autoPlayerConfig, pc, decideVars, execVars, otherVars>>

---------------------------------------------------------------------------
(* Bounds of the model *)

\* tile indices 0..MaxTile stand for the 34 tile categories
MaxTile == 1
\* tiles a hand handed to MakeDecision holds at most
MaxHand == 3

Tiles == 0..MaxTile
NoTile == 0 - 1

\* risk scores of a riskTable entry, in hundredths: none, the default
\* threshold, and a high risk
RiskValues == {0, 15, 50}
NilTable == << >>
RiskTables == {NilTable} \cup [Tiles -> RiskValues]

Strategies == {"aggressive", "balanced", "defensive"}
Thresholds == {15, 50}

---------------------------------------------------------------------------
(* Configuration *)

defaultAutoPlayerConfig ==
    [Enabled |-> FALSE, AutoDiscard |-> TRUE, AutoMeld |-> FALSE,
     AutoRiichi |-> FALSE, AutoAgari |-> TRUE, MinConfidence |-> 70,
     DefenseThreshold |-> 15, DelaySeconds |-> 100, ConfirmActions |-> TRUE,
     Strategy |-> "balanced"]

\* configurations handed to SetAutoPlayerConfig while decisions are studied
DecideConfigs ==
    {[defaultAutoPlayerConfig EXCEPT !.Enabled = e, !.AutoMeld = m,
                                     !.DefenseThreshold = d, !.Strategy = s] :
        e \in BOOLEAN, m \in BOOLEAN, d \in Thresholds, s \in Strategies}

---------------------------------------------------------------------------
(* Pure helpers *)

RECURSIVE SumUpTo(_, _)
SumUpTo(tiles34, n) ==
    IF n < 0 THEN 0 ELSE tiles34[n] + SumUpTo(tiles34, n - 1)

CountOfTiles34(tiles34) == SumUpTo(tiles34, MaxTile)

Hands == {tiles34 \in [Tiles -> 0..MaxHand] : CountOfTiles34(tiles34) <= MaxHand}

Held(tiles34) == {t \in Tiles : tiles34[t] > 0}

SetMax(S) == CHOOSE x \in S : \A y \in S : y <= x
SetMin(S) == CHOOSE x \in S : \A y \in S : x <= y

assessDangerLevel(mixedRiskTable, tiles34) ==
    IF mixedRiskTable = NilTable
    THEN 0
    ELSE SetMax({0} \cup {mixedRiskTable[t] : t \in Held(tiles34)})

\* the lowest-risk tile held in hand, the lowest index among equals; -1
\* when the hand holds nothing. An absent table is uniformly zero risk.
getBestDefenceTile(mixedRiskTable, tiles34) ==
    LET risk(t) == IF mixedRiskTable = NilTable THEN 0 ELSE mixedRiskTable[t]
        held == Held(tiles34)
        least == SetMin({risk(t) : t \in held})
    IN  IF held = {} THEN NoTile
        ELSE SetMin({t \in held : risk(t) = least})

Pass(reason) ==
    [Action |-> "pass", Tile |-> 0, Confidence |-> 0, Reason |-> reason]

---------------------------------------------------------------------------
(* The external hand analyser.  Each candidate of a result list carries   *)
(* the tile it discards; the order of a list is its ranking.  A candidate *)
(* discards a tile the hand holds, a tile is ranked once, and a discard   *)
(* either keeps the shanten (results14) or regresses it                   *)
(* (incShantenResults14).                                                 *)

Candidates(S) ==
    {s \in UNION {[1..n -> [DiscardTile : S]] : n \in 0..Cardinality(S)} :
        \A i, j \in DOMAIN s : i # j => s[i].DiscardTile # s[j].DiscardTile}

TilesOf(results) == {results[i].DiscardTile : i \in DOMAIN results}

\* -1: the hand is complete
Shantens == {0 - 1, 0}

\* answers of util.CalculateShantenWithImproves14(playerInfo)
Analyses(tiles34) ==
    {[called |-> TRUE, shanten |-> sh, results14 |-> r, incShantenResults14 |-> i] :
        sh \in Shantens,
        r \in Candidates(Held(tiles34)),
        i \in Candidates(Held(tiles34))}

DisjointAnalyses(tiles34) ==
    {a \in Analyses(tiles34) :
        TilesOf(a.results14) \cap TilesOf(a.incShantenResults14) = {}}

\* answers of util.CalculateMeld(playerInfo, targetTile, false, true)
MeldAnalyses(tiles34) ==
    {[called |-> TRUE, results14 |-> r] : r \in Candidates(Held(tiles34))}

NotCalled ==
    [called |-> FALSE, shanten |-> 0, results14 |-> << >>,
     incShantenResults14 |-> << >>]
MeldNotCalled == [called |-> FALSE, results14 |-> << >>]

---------------------------------------------------------------------------
(* The decision engine.  Reason stands for the format string of the       *)
(* source: "disabled" 自动出牌已禁用, "agari" 已和牌, "noop" 无有效操作,  *)
(* "attack" 进攻切牌, "regress" 向听倒退切牌, "none" 无法找到合适切牌,    *)
(* "defence" 防守切牌, "balanced" 平衡切牌, "meldOff" 自动鸣牌已禁用,     *)
(* "meld" 鸣牌, "meldPoor" 鸣牌效果不佳.                                  *)

Discard(tile, confidence, reason) ==
    [Action |-> "discard", Tile |-> tile, Confidence |-> confidence,
     Reason |-> reason]

\* aggressiveDiscardDecision, were it to lower its confidence under danger
aggressiveDiscardDecision_DangerAware(results14, incShantenResults14, dangerLevel) ==
    IF Len(results14) > 0
    THEN Discard(results14[1].DiscardTile,
                 IF dangerLevel > 10 THEN (90 * 8) \div 10 ELSE 90, "attack")
    ELSE IF Len(incShantenResults14) > 0
    THEN Discard(incShantenResults14[1].DiscardTile, 70, "regress")
    ELSE Pass("none")

aggressiveDiscardDecision(results14, incShantenResults14, dangerLevel) ==
    IF Len(results14) > 0
    THEN Discard(results14[1].DiscardTile, 90, "attack")
    ELSE IF Len(incShantenResults14) > 0
    THEN Discard(incShantenResults14[1].DiscardTile, 70, "regress")
    ELSE Pass("none")

\* balancedDiscardDecision, were it to defend from the threshold on (>=)
balancedDiscardDecision_AtThreshold(config, tiles34, results14, incShantenResults14, mixedRiskTable, dangerLevel) ==
    LET safestTile == getBestDefenceTile(mixedRiskTable, tiles34)
    IN  IF dangerLevel >= config.DefenseThreshold /\ safestTile >= 0
        THEN Discard(safestTile, 80, "defence")
        ELSE IF Len(results14) > 0
        THEN Discard(results14[1].DiscardTile,
                     IF dangerLevel > 10 THEN (85 * 8) \div 10 ELSE 85,
                     "balanced")
        ELSE Pass("none")

\* balancedDiscardDecision, were it to take the last candidate of the ranking
balancedDiscardDecision_LastCandidate(config, tiles34, results14, incShantenResults14, mixedRiskTable, dangerLevel) ==
    LET safestTile == getBestDefenceTile(mixedRiskTable, tiles34)
    IN  IF dangerLevel > config.DefenseThreshold /\ safestTile >= 0
        THEN Discard(safestTile, 80, "defence")
        ELSE IF Len(results14) > 0
        THEN Discard(results14[Len(results14)].DiscardTile,
                     IF dangerLevel > 10 THEN (85 * 8) \div 10 ELSE 85,
                     "balanced")
        ELSE Pass("none")

balancedDiscardDecision(config, tiles34, results14, incShantenResults14, mixedRiskTable, dangerLevel) ==
    LET safestTile == getBestDefenceTile(mixedRiskTable, tiles34)
    IN  IF dangerLevel > config.DefenseThreshold /\ safestTile >= 0
        THEN Discard(safestTile, 80, "defence")
        ELSE IF Len(results14) > 0
        THEN Discard(results14[1].DiscardTile,
                     IF dangerLevel > 10 THEN (85 * 8) \div 10 ELSE 85,
                     "balanced")
        ELSE Pass("none")

defensiveDiscardDecision(config, tiles34, mixedRiskTable, dangerLevel) ==
    LET safestTile == getBestDefenceTile(mixedRiskTable, tiles34)
    IN  IF dangerLevel > config.DefenseThreshold /\ safestTile >= 0
        THEN Discard(safestTile, 80, "defence")
        ELSE balancedDiscardDecision(config, tiles34, << >>, << >>,
                                     mixedRiskTable, dangerLevel)

makeDiscardDecision(config, tiles34, mixedRiskTable, analysis) ==
    LET dangerLevel == assessDangerLevel(mixedRiskTable, tiles34)
    IN  CASE config.Strategy = "aggressive" ->
                aggressiveDiscardDecision(analysis.results14,
                                          analysis.incShantenResults14, dangerLevel)
          [] config.Strategy = "defensive" ->
                defensiveDiscardDecision(config, tiles34, mixedRiskTable, dangerLevel)
          [] OTHER ->
                balancedDiscardDecision(config, tiles34, analysis.results14,
                                        analysis.incShantenResults14,
                                        mixedRiskTable, dangerLevel)

makeMeldDecision(config, targetTile, meld) ==
    IF ~config.AutoMeld
    THEN Pass("meldOff")
    ELSE IF Len(meld.results14) > 0
    THEN [Action |-> "meld", Tile |-> targetTile, Confidence |-> 75,
          Reason |-> "meld"]
    ELSE Pass("meldPoor")

\* MakeDecision, were it to skip the Enabled check
MakeDecision_EnabledIgnored(config, tiles34, mixedRiskTable, targetTile, canMeld, analysis, meld) ==
    LET handCount == CountOfTiles34(tiles34)
    IN  IF handCount % 3 = 1 /\ analysis.shanten = 0 - 1
        THEN [Action |-> "agari", Tile |-> 0, Confidence |-> 100,
              Reason |-> "agari"]
        ELSE CASE handCount % 3 = 1 ->
                    makeDiscardDecision(config, tiles34, mixedRiskTable, analysis)
               [] handCount % 3 = 2 ->
                    IF canMeld /\ targetTile # NoTile
                    THEN makeMeldDecision(config, targetTile, meld)
                    ELSE makeDiscardDecision(config, tiles34, mixedRiskTable, analysis)
               [] OTHER -> Pass("noop")

\* MakeDecision, were the complete hand looked for only after the defensive
\* strategy has had its say
MakeDecision_AgariAfterDefence(config, tiles34, mixedRiskTable, targetTile, canMeld, analysis, meld) ==
    LET handCount == CountOfTiles34(tiles34)
    IN  IF ~config.Enabled
        THEN Pass("disabled")
        ELSE IF handCount % 3 = 1 /\ analysis.shanten = 0 - 1
                /\ config.Strategy # "defensive"
        THEN [Action |-> "agari", Tile |-> 0, Confidence |-> 100,
              Reason |-> "agari"]
        ELSE CASE handCount % 3 = 1 ->
                    makeDiscardDecision(config, tiles34, mixedRiskTable, analysis)
               [] handCount % 3 = 2 ->
                    IF canMeld /\ targetTile # NoTile
                    THEN makeMeldDecision(config, targetTile, meld)
                    ELSE makeDiscardDecision(config, tiles34, mixedRiskTable, analysis)
               [] OTHER -> Pass("noop")

MakeDecision(config, tiles34, mixedRiskTable, targetTile, canMeld, analysis, meld) ==
    LET handCount == CountOfTiles34(tiles34)
    IN  IF ~config.Enabled
        THEN Pass("disabled")
        ELSE IF handCount % 3 = 1 /\ analysis.shanten = 0 - 1
        THEN [Action |-> "agari", Tile |-> 0, Confidence |-> 100,
              Reason |-> "agari"]
        ELSE CASE handCount % 3 = 1 ->
                    makeDiscardDecision(config, tiles34, mixedRiskTable, analysis)
               [] handCount % 3 = 2 ->
                    IF canMeld /\ targetTile # NoTile
                    THEN makeMeldDecision(config, targetTile, meld)
                    ELSE makeDiscardDecision(config, tiles34, mixedRiskTable, analysis)
               [] OTHER -> Pass("noop")

\* the calls of the analyser MakeDecision makes on its way
AnalysisCalled(config, tiles34, targetTile, canMeld) ==
    /\ config.Enabled
    /\ \/ CountOfTiles34(tiles34) % 3 = 1
       \/ CountOfTiles34(tiles34) % 3 = 2 /\ ~(canMeld /\ targetTile # NoTile)

MeldCalled(config, tiles34, targetTile, canMeld) ==
    /\ config.Enabled
    /\ CountOfTiles34(tiles34) % 3 = 2
    /\ canMeld /\ targetTile # NoTile
    /\ config.AutoMeld

---------------------------------------------------------------------------
(* The execution gate.  An execution is the sequence of the effects       *)
(* ExecuteDecision has, in order, and the error it returns ("nil": none). *)
(* Errors: "cancelled" 用户取消操作, "unknownAction" 未知操作类型, or the  *)
(* error the channel operation returned.                                  *)

Effect(kind) == [kind |-> kind, tile |-> NoTile]
EffectOn(kind, tile) == [kind |-> kind, tile |-> tile]

ChannelOps == {"SendDiscard", "SendMeld", "SendRiichi", "SendAgari", "SendPass"}

\* what the user types at the prompt
Responses == {"y", "Y", "n", ""}
\* what a channel operation returns
SendResults == {"nil", "sendFailed"}

\* confirmAction, were an empty answer to mean yes
confirmAction_DefaultYes(response) == response # "n"

confirmAction(response) == response = "y" \/ response = "Y"

\* executeDiscard, were it to report a failed send and carry on
executeDiscard_ErrorSwallowed(sender, tile, sendResult) ==
    IF sender # "nil"
    THEN [effects |-> <<EffectOn("SendDiscard", tile)>>, result |-> "nil"]
    ELSE [effects |-> <<EffectOn("simulate", tile)>>, result |-> "nil"]

executeDiscard(sender, tile, sendResult) ==
    IF sender # "nil"
    THEN [effects |-> <<EffectOn("SendDiscard", tile)>>, result |-> sendResult]
    ELSE [effects |-> <<EffectOn("simulate", tile)>>, result |-> "nil"]

\* the wire types of ActionSender
ActionTypeChi == 1
ActionTypePon == 2
ActionTypeKan == 3

\* the switch of ActionSender.SendMeld over meldType; 0: 未知的鸣牌类型
SendMeldActionType(meldType) ==
    CASE meldType = 0 -> ActionTypeChi
      [] meldType = 1 -> ActionTypePon
      [] meldType = 2 -> ActionTypeKan
      [] OTHER -> 0

\* executeMeld, were it to claim a sequence (meldType 0) of the tile
executeMeld_Sequence(sender, tile, sendResult) ==
    IF sender # "nil"
    THEN [effects |-> <<[kind |-> "SendMeld", tile |-> tile, meldType |-> 0,
                         combination |-> <<tile, tile, tile>>]>>,
          result |-> sendResult]
    ELSE [effects |-> <<EffectOn("simulate", tile)>>, result |-> "nil"]

\* SendMeld(1, tile, []int{tile, tile, tile})
executeMeld(sender, tile, sendResult) ==
    IF sender # "nil"
    THEN [effects |-> <<[kind |-> "SendMeld", tile |-> tile, meldType |-> 1,
                         combination |-> <<tile, tile, tile>>]>>,
          result |-> sendResult]
    ELSE [effects |-> <<EffectOn("simulate", tile)>>, result |-> "nil"]

executeAgari(sender, sendResult) ==
    IF sender # "nil"
    THEN [effects |-> <<Effect("SendAgari")>>, result |-> sendResult]
    ELSE [effects |-> <<Effect("simulate")>>, result |-> "nil"]

\* executeRiichi, were it to use the sender without the nil check
executeRiichi_NoNilCheck(sender, sendResult) ==
    [effects |-> <<Effect("SendRiichi")>>, result |-> sendResult]

executeRiichi(sender, sendResult) ==
    IF sender # "nil"
    THEN [effects |-> <<Effect("SendRiichi")>>, result |-> sendResult]
    ELSE [effects |-> <<Effect("simulate")>>, result |-> "nil"]

\* ExecuteDecision, were pass to go the way of every other action
ExecuteDecision_PassNotShortCut(config, sender, d, response, sendResult) ==
    LET shown == <<EffectOn("display", d.Tile)>>
        asked == IF config.ConfirmActions
                 THEN shown \o <<Effect("confirm")>> ELSE shown
        slept == IF config.DelaySeconds > 0
                 THEN asked \o <<Effect("sleep")>> ELSE asked
        done == CASE d.Action = "discard" -> executeDiscard(sender, d.Tile, sendResult)
                  [] d.Action = "meld" -> executeMeld(sender, d.Tile, sendResult)
                  [] d.Action = "agari" -> executeAgari(sender, sendResult)
                  [] d.Action = "riichi" -> executeRiichi(sender, sendResult)
                  [] d.Action = "pass" -> [effects |-> << >>, result |-> "nil"]
                  [] OTHER -> [effects |-> << >>, result |-> "unknownAction"]
    IN  IF config.ConfirmActions /\ ~confirmAction(response)
        THEN [effects |-> asked, result |-> "cancelled"]
        ELSE [effects |-> slept \o done.effects, result |-> done.result]

\* ExecuteDecision, were the delay to follow the dispatch
ExecuteDecision_DelayAfterDispatch(config, sender, d, response, sendResult) ==
    IF d.Action = "pass"
    THEN [effects |-> << >>, result |-> "nil"]
    ELSE
    LET shown == <<EffectOn("display", d.Tile)>>
        asked == IF config.ConfirmActions
                 THEN shown \o <<Effect("confirm")>> ELSE shown
        sleep == IF config.DelaySeconds > 0 THEN <<Effect("sleep")>> ELSE << >>
        done == CASE d.Action = "discard" -> executeDiscard(sender, d.Tile, sendResult)
                  [] d.Action = "meld" -> executeMeld(sender, d.Tile, sendResult)
                  [] d.Action = "agari" -> executeAgari(sender, sendResult)
                  [] d.Action = "riichi" -> executeRiichi(sender, sendResult)
                  [] OTHER -> [effects |-> << >>, result |-> "unknownAction"]
    IN  IF config.ConfirmActions /\ ~confirmAction(response)
        THEN [effects |-> asked, result |-> "cancelled"]
        ELSE [effects |-> asked \o done.effects \o sleep, result |-> done.result]

ExecuteDecision(config, sender, d, response, sendResult) ==
    IF d.Action = "pass"
    THEN [effects |-> << >>, result |-> "nil"]
    ELSE
    LET shown == <<EffectOn("display", d.Tile)>>
        asked == IF config.ConfirmActions
                 THEN shown \o <<Effect("confirm")>> ELSE shown
        slept == IF config.DelaySeconds > 0
                 THEN asked \o <<Effect("sleep")>> ELSE asked
        done == CASE d.Action = "discard" -> executeDiscard(sender, d.Tile, sendResult)
                  [] d.Action = "meld" -> executeMeld(sender, d.Tile, sendResult)
                  [] d.Action = "agari" -> executeAgari(sender, sendResult)
                  [] d.Action = "riichi" -> executeRiichi(sender, sendResult)
                  [] OTHER -> [effects |-> << >>, result |-> "unknownAction"]
    IN  IF config.ConfirmActions /\ ~confirmAction(response)
        THEN [effects |-> asked, result |-> "cancelled"]
        ELSE [effects |-> slept \o done.effects, result |-> done.result]

\* the Decisions handed to ExecuteDecision: those MakeDecision builds, a
\* riichi, and an action outside the five
ExecDecisions ==
    {[Action |-> a, Tile |-> t, Confidence |-> c, Reason |-> "given"] :
        a \in {"discard", "meld"}, t \in Tiles, c \in {70, 90}}
    \cup {[Action |-> a, Tile |-> 0, Confidence |-> c, Reason |-> "given"] :
        a \in {"agari", "riichi", "pass", "kan"}, c \in {0, 100}}

\* configurations handed to SetAutoPlayerConfig while executions are studied
ExecConfigs ==
    {[defaultAutoPlayerConfig EXCEPT !.Enabled = e, !.ConfirmActions = c,
                                     !.DelaySeconds = d] :
        e \in BOOLEAN, c \in BOOLEAN, d \in {0, 100}}

---------------------------------------------------------------------------
(* State machine of the decision engine *)

NoCall == [made |-> FALSE]
NoDecision == [Action |-> "", Tile |-> NoTile, Confidence |-> 0, Reason |-> ""]

NoExec == [made |-> FALSE]

NoOp == [op |-> "none"]
NoThread == [at |-> "out"]

InitEngine ==
    /\ autoPlayerConfig = defaultAutoPlayerConfig
    /\ pc = "idle"
    /\ call = NoCall
    /\ decision = NoDecision
    /\ globalActionSender = "nil"
    /\ exec = NoExec

InitStore ==
    /\ configPath = [state |-> "absent"]
    /\ cfgOp = NoOp

InitRace ==
    /\ writer = NoThread
    /\ reader = NoThread

\* interact has not been entered
InitNoLoop ==
    /\ handTiles34 = << >>
    /\ leftTiles34 = << >>
    /\ numRedFives = << >>
    /\ discardTiles = << >>
    /\ loop = [at |-> "off"]

\* nothing has been sent
InitWire == posted = << >>

Init == InitEngine /\ InitStore /\ InitRace /\ InitNoLoop /\ InitWire

SetAutoPlayerConfig(config) ==
    /\ pc = "idle"
    /\ autoPlayerConfig' = config
    /\ UNCHANGED <<pc, decideVars, execVars, otherVars>>

SetAutoPlayerEnabled(enabled) ==
    /\ pc = "idle"
    /\ autoPlayerConfig' = [autoPlayerConfig EXCEPT !.Enabled = enabled]
    /\ UNCHANGED <<pc, decideVars, execVars, otherVars>>

ToggleAutoPlayer == SetAutoPlayerEnabled(~autoPlayerConfig.Enabled)

\* one call of globalAutoPlayer.MakeDecision
Decide ==
    /\ pc = "idle"
    /\ \E tiles34 \in Hands, mixedRiskTable \in RiskTables,
          targetTile \in {NoTile} \cup Tiles, canMeld \in BOOLEAN :
        \E analysis \in
                IF AnalysisCalled(autoPlayerConfig, tiles34, targetTile, canMeld)
                THEN DisjointAnalyses(tiles34) ELSE {NotCalled},
           meld \in
                IF MeldCalled(autoPlayerConfig, tiles34, targetTile, canMeld)
                THEN MeldAnalyses(tiles34) ELSE {MeldNotCalled} :
            /\ call' = [made |-> TRUE,
                        tiles34 |-> tiles34, mixedRiskTable |-> mixedRiskTable,
                        targetTile |-> targetTile, canMeld |-> canMeld,
                        analysis |-> analysis, meld |-> meld]
            /\ decision' = MakeDecision(autoPlayerConfig, tiles34, mixedRiskTable,
                                        targetTile, canMeld, analysis, meld)
    /\ pc' = "decided"
    /\ UNCHANGED <<autoPlayerConfig, execVars, otherVars>>

\* the caller has taken the Decision
Return ==
    /\ pc = "decided"
    /\ pc' = "idle"
    /\ call' = NoCall
    /\ decision' = NoDecision
    /\ UNCHANGED <<autoPlayerConfig, execVars, otherVars>>

Next ==
    \/ \E config \in DecideConfigs : SetAutoPlayerConfig(config)
    \/ \E enabled \in BOOLEAN : SetAutoPlayerEnabled(enabled)
    \/ ToggleAutoPlayer
    \/ Decide
    \/ Return

Spec == Init /\ [][Next]_vars

---------------------------------------------------------------------------
(* State machine of the execution gate *)

SetActionSender(sender) ==
    /\ pc = "idle"
    /\ globalActionSender' = sender
    /\ UNCHANGED <<autoPlayerConfig, pc, decideVars, exec, otherVars>>

\* one call of globalAutoPlayer.ExecuteDecision
Execute ==
    /\ pc = "idle"
    /\ \E d \in ExecDecisions, response \in Responses, sendResult \in SendResults :
        LET done == ExecuteDecision(autoPlayerConfig, globalActionSender, d,
                                    response, sendResult)
        IN  exec' = [made |-> TRUE, decision |-> d, response |-> response,
                     sendResult |-> sendResult, effects |-> done.effects,
                     result |-> done.result]
    /\ pc' = "executed"
    /\ UNCHANGED <<autoPlayerConfig, decideVars, globalActionSender, otherVars>>

\* the caller has taken the error
ExecReturn ==
    /\ pc = "executed"
    /\ pc' = "idle"
    /\ exec' = NoExec
    /\ UNCHANGED <<autoPlayerConfig, decideVars, globalActionSender, otherVars>>

NextExec ==
    \/ \E config \in ExecConfigs : SetAutoPlayerConfig(config)
    \/ \E sender \in {"nil", "attached"} : SetActionSender(sender)
    \/ Execute
    \/ ExecReturn

SpecExec == Init /\ [][NextExec]_vars

---------------------------------------------------------------------------
(* Properties of the decision engine, checked under Spec *)

Decided == pc = "decided"
HandCount == CountOfTiles34(call.tiles34)
DangerLevel == assessDangerLevel(call.mixedRiskTable, call.tiles34)
MeldOffered == call.canMeld /\ call.targetTile # NoTile
Risk(t) == IF call.mixedRiskTable = NilTable THEN 0 ELSE call.mixedRiskTable[t]

\* the call reached the discard policy of the configured strategy
DiscardPath ==
    /\ Decided
    /\ autoPlayerConfig.Enabled
    /\ \/ HandCount % 3 = 1 /\ call.analysis.shanten # 0 - 1
       \/ HandCount % 3 = 2 /\ ~MeldOffered

\* the call reached the meld evaluation
MeldPath ==
    /\ Decided
    /\ autoPlayerConfig.Enabled
    /\ HandCount % 3 = 2
    /\ MeldOffered

SameChoice(d, e) ==
    d.Action = e.Action /\ d.Tile = e.Tile /\ d.Confidence = e.Confidence

\* C1: while the configuration is disabled every call of MakeDecision,
\* whatever its hand, count, danger table, strategy, target tile and canMeld,
\* returns pass with confidence 0.
C1_DisabledPasses ==
    (Decided /\ ~autoPlayerConfig.Enabled) =>
        decision.Action = "pass" /\ decision.Confidence = 0

\* a disabled call on a choice-phase hand with a meld on offer and a risky table
C1_Witness ==
    /\ Decided /\ ~autoPlayerConfig.Enabled
    /\ autoPlayerConfig.AutoMeld
    /\ HandCount % 3 = 2 /\ MeldOffered
    /\ DangerLevel > autoPlayerConfig.DefenseThreshold
    /\ decision.Action = "pass"

\* C2: enabled, in draw-phase (count mod 3 = 1) with a reported shanten of
\* -1, MakeDecision returns agari with confidence 1.0 under every strategy,
\* danger table and defenseThreshold.
C2_CompleteHandWins ==
    (Decided /\ autoPlayerConfig.Enabled /\ HandCount % 3 = 1
        /\ call.analysis.shanten = 0 - 1) =>
        decision.Action = "agari" /\ decision.Confidence = 100

\* a complete hand under the defensive strategy with danger over the threshold
C2_Witness ==
    /\ Decided /\ autoPlayerConfig.Enabled /\ HandCount % 3 = 1
    /\ call.analysis.shanten = 0 - 1
    /\ autoPlayerConfig.Strategy = "defensive"
    /\ DangerLevel > autoPlayerConfig.DefenseThreshold
    /\ Len(call.analysis.results14) > 0
    /\ decision.Action = "agari"

\* C3: enabled, with a count whose remainder mod 3 is 0, the engine refuses
\* to decide: MakeDecision returns no Decision, not even pass.
C3_InvalidPhaseRefused ==
    (Decided /\ autoPlayerConfig.Enabled /\ HandCount % 3 = 0) =>
        decision = NoDecision

\* C4: under the defensive strategy with dangerLevel not over the threshold
\* the discard decision is the one the balanced strategy makes of the same
\* hand, analysis results and danger table.
C4_DefensiveDelegatesToBalanced ==
    (DiscardPath /\ autoPlayerConfig.Strategy = "defensive"
        /\ DangerLevel <= autoPlayerConfig.DefenseThreshold) =>
        decision = balancedDiscardDecision(autoPlayerConfig, call.tiles34,
                        call.analysis.results14, call.analysis.incShantenResults14,
                        call.mixedRiskTable, DangerLevel)

\* the decision is the defensive discard: a tile held in hand that no held
\* tile undercuts in risk, at confidence 0.8
DefensiveDiscardTaken ==
    /\ decision.Action = "discard"
    /\ decision.Reason = "defence"
    /\ decision.Confidence = 80
    /\ decision.Tile \in Held(call.tiles34)
    /\ \A t \in Held(call.tiles34) : Risk(decision.Tile) <= Risk(t)

\* C5: under the defensive or the balanced strategy the defensive discard is
\* taken if and only if dangerLevel is strictly over defenseThreshold and the
\* hand holds a lowest-danger tile; at dangerLevel = defenseThreshold it is not.
C5_DefenceIffOverThreshold ==
    (DiscardPath /\ autoPlayerConfig.Strategy \in {"defensive", "balanced"}) =>
        /\ DefensiveDiscardTaken <=>
                (DangerLevel > autoPlayerConfig.DefenseThreshold
                    /\ Held(call.tiles34) # {})
        /\ decision.Reason = "defence" => DefensiveDiscardTaken

\* the balanced strategy at dangerLevel = defenseThreshold, attacking
C5_Witness ==
    /\ DiscardPath /\ autoPlayerConfig.Strategy = "balanced"
    /\ DangerLevel = autoPlayerConfig.DefenseThreshold
    /\ decision.Action = "discard" /\ decision.Reason = "balanced"

\* C6: under the balanced strategy with dangerLevel not over the threshold,
\* a non-empty result list gives the discard of its first candidate, at
\* confidence 0.85 when dangerLevel <= 0.1 and 0.68 when over; an empty list
\* gives pass with confidence 0.
C6_BalancedTakesTopCandidate ==
    (DiscardPath /\ autoPlayerConfig.Strategy = "balanced"
        /\ DangerLevel <= autoPlayerConfig.DefenseThreshold) =>
        IF Len(call.analysis.results14) > 0
        THEN /\ decision.Action = "discard"
             /\ decision.Tile = call.analysis.results14[1].DiscardTile
             /\ decision.Confidence = IF DangerLevel <= 10 THEN 85 ELSE 68
        ELSE decision.Action = "pass" /\ decision.Confidence = 0

\* two ranked candidates, danger between 0.1 and the threshold
C6_Witness ==
    /\ DiscardPath /\ autoPlayerConfig.Strategy = "balanced"
    /\ DangerLevel > 10 /\ DangerLevel < autoPlayerConfig.DefenseThreshold
    /\ Len(call.analysis.results14) = 2
    /\ decision.Action = "discard" /\ decision.Confidence = 68
    /\ decision.Tile = call.analysis.results14[1].DiscardTile

\* C7: in choice-phase with a meld on offer: with autoMeld, a non-empty
\* post-meld analysis gives meld of the target tile at confidence 0.75 and an
\* empty one gives a decision the discard policy of the configured strategy
\* returns for that hand; without autoMeld the decision is never meld.
C7_MeldOrFallThrough ==
    MeldPath =>
        IF autoPlayerConfig.AutoMeld
        THEN IF Len(call.meld.results14) > 0
             THEN /\ decision.Action = "meld"
                  /\ decision.Tile = call.targetTile
                  /\ decision.Confidence = 75
             ELSE \E analysis \in DisjointAnalyses(call.tiles34) :
                    SameChoice(decision,
                               makeDiscardDecision(autoPlayerConfig, call.tiles34,
                                                   call.mixedRiskTable, analysis))
        ELSE decision.Action # "meld"

\* what the aggressive strategy is to return, from the two lists alone
AggressiveChoice(results14, incShantenResults14) ==
    IF Len(results14) > 0
    THEN [Action |-> "discard", Tile |-> results14[1].DiscardTile, Confidence |-> 90]
    ELSE IF Len(incShantenResults14) > 0
    THEN [Action |-> "discard", Tile |-> incShantenResults14[1].DiscardTile,
          Confidence |-> 70]
    ELSE [Action |-> "pass", Tile |-> 0, Confidence |-> 0]

\* C8: under the aggressive strategy the discard decision is fixed by the two
\* result lists, whatever the danger table and defenseThreshold: the first
\* primary candidate at 0.9, else the first shanten-regressing candidate at
\* 0.7, else pass at 0.
C8_AggressiveIgnoresDanger ==
    (DiscardPath /\ autoPlayerConfig.Strategy = "aggressive") =>
        SameChoice(decision, AggressiveChoice(call.analysis.results14,
                                              call.analysis.incShantenResults14))

\* danger over the threshold, and the aggressive strategy attacks all the same
C8_Witness ==
    /\ DiscardPath /\ autoPlayerConfig.Strategy = "aggressive"
    /\ DangerLevel > autoPlayerConfig.DefenseThreshold
    /\ Len(call.analysis.results14) = 2
    /\ decision.Action = "discard" /\ decision.Confidence = 90
    /\ decision.Tile # getBestDefenceTile(call.mixedRiskTable, call.tiles34)

---------------------------------------------------------------------------
(* Properties of the execution gate, checked under SpecExec *)

Executed == pc = "executed"
EffectKinds == {exec.effects[i].kind : i \in DOMAIN exec.effects}
Accepted == ~autoPlayerConfig.ConfirmActions \/ exec.response \in {"y", "Y"}

\* C9: a non-pass decision under confirmActions whose confirmation is
\* answered by anything but y or Y ends in the user-cancelled error, with no
\* channel operation invoked and no delay performed.
C9_RejectionCancels ==
    (Executed /\ exec.decision.Action # "pass"
        /\ autoPlayerConfig.ConfirmActions /\ exec.response \notin {"y", "Y"}) =>
        /\ exec.result = "cancelled"
        /\ EffectKinds \cap ChannelOps = {}
        /\ "sleep" \notin EffectKinds

\* an empty answer, with a channel attached and a delay configured
C9_Witness ==
    /\ Executed /\ exec.decision.Action = "discard"
    /\ autoPlayerConfig.ConfirmActions /\ exec.response = ""
    /\ globalActionSender # "nil" /\ autoPlayerConfig.DelaySeconds > 0
    /\ exec.result = "cancelled"

\* C10: with no sender attached an accepted discard, meld, riichi or agari
\* decision ends in success after the simulated-execution report, and no
\* channel operation is invoked.
C10_NoSenderSimulates ==
    (Executed /\ globalActionSender = "nil" /\ Accepted
        /\ exec.decision.Action \in {"discard", "meld", "riichi", "agari"}) =>
        /\ exec.result = "nil"
        /\ exec.effects[Len(exec.effects)].kind = "simulate"
        /\ EffectKinds \cap ChannelOps = {}

\* a riichi with no sender, no confirmation and no delay
C10_Witness ==
    /\ Executed /\ globalActionSender = "nil"
    /\ ~autoPlayerConfig.ConfirmActions /\ autoPlayerConfig.DelaySeconds = 0
    /\ exec.decision.Action = "riichi"
    /\ exec.result = "nil" /\ "simulate" \in EffectKinds

\* the channel operations of the execution, in order
ChannelEffects == SelectSeq(exec.effects, LAMBDA e : e.kind \in ChannelOps)
Dispatchable == {"discard", "meld", "riichi", "agari"}
Position(kind) == {i \in DOMAIN exec.effects : exec.effects[i].kind = kind}

\* C11: with a sender attached, a channel operation that fails makes
\* ExecuteDecision return that very failure, the operation having been
\* invoked once and no other; and an execution leaves the configuration and
\* the hand state as they were.
C11_SendFailureSurfaced ==
    /\ [](  (Executed /\ globalActionSender # "nil" /\ Accepted
                /\ exec.decision.Action \in Dispatchable
                /\ exec.sendResult # "nil") =>
                (exec.result = exec.sendResult /\ Len(ChannelEffects) = 1))
    /\ [][pc' = "executed" =>
            (autoPlayerConfig' = autoPlayerConfig /\ call' = call)]_vars

\* a discard whose send failed
C11_Witness ==
    /\ Executed /\ globalActionSender # "nil" /\ Accepted
    /\ exec.decision.Action = "discard"
    /\ exec.sendResult = "sendFailed" /\ exec.result = "sendFailed"
    /\ Len(ChannelEffects) = 1 /\ ChannelEffects[1].kind = "SendDiscard"

\* C12: ExecuteDecision of a pass returns success at once under every
\* configuration: nothing reported, nothing asked, no delay, no channel
\* operation.
C12_PassIsNoOp ==
    (Executed /\ exec.decision.Action = "pass") =>
        exec.result = "nil" /\ exec.effects = << >>

\* a pass under confirmActions and a delay, with a sender attached, answered no
C12_Witness ==
    /\ Executed /\ exec.decision.Action = "pass"
    /\ autoPlayerConfig.ConfirmActions /\ autoPlayerConfig.DelaySeconds > 0
    /\ globalActionSender # "nil" /\ exec.response = "n"
    /\ exec.result = "nil" /\ exec.effects = << >>

\* C13: with a sender attached an accepted decision goes to the channel
\* operation of its action and to no other: discard to SendDiscard(tile),
\* meld to SendMeld of sub-type 1 (the triplet claim) with combination
\* [tile, tile, tile], riichi to SendRiichi, agari to SendAgari; an action
\* outside the five gives the unknown-action error and no channel operation.
C13_DispatchMatchesAction ==
    (Executed /\ globalActionSender # "nil" /\ Accepted
        /\ exec.decision.Action # "pass") =>
        LET d == exec.decision
            ops == ChannelEffects
        IN  CASE d.Action = "discard" ->
                    /\ Len(ops) = 1 /\ ops[1].kind = "SendDiscard"
                    /\ ops[1].tile = d.Tile
              [] d.Action = "meld" ->
                    /\ Len(ops) = 1 /\ ops[1].kind = "SendMeld"
                    /\ ops[1].tile = d.Tile
                    /\ ops[1].meldType = 1
                    /\ SendMeldActionType(ops[1].meldType) = ActionTypePon
                    /\ ops[1].combination = <<d.Tile, d.Tile, d.Tile>>
              [] d.Action = "riichi" -> Len(ops) = 1 /\ ops[1].kind = "SendRiichi"
              [] d.Action = "agari" -> Len(ops) = 1 /\ ops[1].kind = "SendAgari"
              [] OTHER -> ops = << >> /\ exec.result = "unknownAction"

\* a meld of tile 1 sent as a triplet claim
C13_Witness ==
    /\ Executed /\ globalActionSender # "nil" /\ Accepted
    /\ exec.decision.Action = "meld" /\ exec.decision.Tile = 1
    /\ Len(ChannelEffects) = 1
    /\ ChannelEffects[1].kind = "SendMeld" /\ ChannelEffects[1].meldType = 1
    /\ ChannelEffects[1].combination = <<1, 1, 1>>

\* C19: a non-pass execution runs report, confirmation (under
\* confirmActions), delay (under delaySeconds > 0), dispatch, in that order:
\* a channel operation comes last, after the accepted confirmation and the
\* delay, and there is at most one of them.
C19_GateOrder ==
    (Executed /\ exec.decision.Action # "pass") =>
        /\ Position("display") = {1}
        /\ Position("confirm") = IF autoPlayerConfig.ConfirmActions THEN {2} ELSE {}
        /\ Position("sleep") =
                IF Accepted /\ autoPlayerConfig.DelaySeconds > 0
                THEN {IF autoPlayerConfig.ConfirmActions THEN 3 ELSE 2} ELSE {}
        /\ Len(ChannelEffects) <= 1
        /\ \A i \in DOMAIN exec.effects :
                exec.effects[i].kind \in ChannelOps =>
                    /\ Accepted
                    /\ i = Len(exec.effects)
                    /\ \A k \in {"display", "confirm", "sleep"} :
                            \A j \in Position(k) : j < i

\* report, accepted confirmation, delay, then the send
C19_Witness ==
    /\ Executed /\ exec.decision.Action = "agari"
    /\ autoPlayerConfig.ConfirmActions /\ autoPlayerConfig.DelaySeconds > 0
    /\ Len(exec.effects) = 4
    /\ exec.effects[1].kind = "display" /\ exec.effects[2].kind = "confirm"
    /\ exec.effects[3].kind = "sleep" /\ exec.effects[4].kind = "SendAgari"

\* C18: every Decision carries a tile that is a tile index or none (-1):
\* pass and agari decisions carry none, only discard and meld decisions carry
\* a tile index, and every confidence lies in [0,1].
C18_TileOrNone ==
    Decided =>
        /\ decision.Action \in {"pass", "agari"} => decision.Tile = NoTile
        /\ decision.Tile # NoTile =>
               decision.Action \in {"discard", "meld"} /\ decision.Tile \in 0..33
        /\ decision.Confidence \in 0..100

---------------------------------------------------------------------------
(* The configuration store.  Fractions are in hundredths, as everywhere:  *)
(* 1.0 is 100 and a delay of 10.0 seconds is 1000.                        *)

\* validateConfig's errors name the field they reject
validStrategies == {"aggressive", "balanced", "defensive"}

\* validateConfig, were it to look at the strategy before the numbers
validateConfig_StrategyFirst(config) ==
    IF config.Strategy \notin validStrategies THEN "strategy"
    ELSE IF config.MinConfidence < 0 \/ config.MinConfidence > 100
    THEN "minConfidence"
    ELSE IF config.DefenseThreshold < 0 \/ config.DefenseThreshold > 100
    THEN "defenseThreshold"
    ELSE IF config.DelaySeconds < 0 \/ config.DelaySeconds > 1000
    THEN "delaySeconds"
    ELSE "nil"

validateConfig(config) ==
    IF config.MinConfidence < 0 \/ config.MinConfidence > 100
    THEN "minConfidence"
    ELSE IF config.DefenseThreshold < 0 \/ config.DefenseThreshold > 100
    THEN "defenseThreshold"
    ELSE IF config.DelaySeconds < 0 \/ config.DelaySeconds > 1000
    THEN "delaySeconds"
    ELSE IF config.Strategy \notin validStrategies
    THEN "strategy"
    ELSE "nil"

\* json.MarshalIndent of an AutoPlayerConfigFile: a document keyed by the
\* json tags of the struct
Marshal(configFile) ==
    [enabled |-> configFile.Enabled, autoDiscard |-> configFile.AutoDiscard,
     autoMeld |-> configFile.AutoMeld, autoRiichi |-> configFile.AutoRiichi,
     autoAgari |-> configFile.AutoAgari,
     minConfidence |-> configFile.MinConfidence,
     defenseThreshold |-> configFile.DefenseThreshold,
     delaySeconds |-> configFile.DelaySeconds,
     confirmActions |-> configFile.ConfirmActions,
     strategy |-> configFile.Strategy]

\* a key the document omits leaves the field at the zero value of its type
Field(doc, key, zero) == IF key \in DOMAIN doc THEN doc[key] ELSE zero

\* json.Unmarshal of a well-formed document into an AutoPlayerConfigFile
Unmarshal(doc) ==
    [Enabled |-> Field(doc, "enabled", FALSE),
     AutoDiscard |-> Field(doc, "autoDiscard", FALSE),
     AutoMeld |-> Field(doc, "autoMeld", FALSE),
     AutoRiichi |-> Field(doc, "autoRiichi", FALSE),
     AutoAgari |-> Field(doc, "autoAgari", FALSE),
     MinConfidence |-> Field(doc, "minConfidence", 0),
     DefenseThreshold |-> Field(doc, "defenseThreshold", 0),
     DelaySeconds |-> Field(doc, "delaySeconds", 0),
     ConfirmActions |-> Field(doc, "confirmActions", FALSE),
     Strategy |-> Field(doc, "strategy", "")]

\* the AutoPlayerConfigFile built from an AutoPlayerConfig
ToConfigFile(config) ==
    [Enabled |-> config.Enabled, AutoDiscard |-> config.AutoDiscard,
     AutoMeld |-> config.AutoMeld, AutoRiichi |-> config.AutoRiichi,
     AutoAgari |-> config.AutoAgari, MinConfidence |-> config.MinConfidence,
     DefenseThreshold |-> config.DefenseThreshold,
     DelaySeconds |-> config.DelaySeconds,
     ConfirmActions |-> config.ConfirmActions, Strategy |-> config.Strategy]

\* the AutoPlayerConfig built from an AutoPlayerConfigFile
ToConfig(configFile) ==
    [Enabled |-> configFile.Enabled, AutoDiscard |-> configFile.AutoDiscard,
     AutoMeld |-> configFile.AutoMeld, AutoRiichi |-> configFile.AutoRiichi,
     AutoAgari |-> configFile.AutoAgari,
     MinConfidence |-> configFile.MinConfidence,
     DefenseThreshold |-> configFile.DefenseThreshold,
     DelaySeconds |-> configFile.DelaySeconds,
     ConfirmActions |-> configFile.ConfirmActions,
     Strategy |-> configFile.Strategy]

\* the literal of SaveDefaultConfig
defaultConfigFile ==
    [Enabled |-> FALSE, AutoDiscard |-> TRUE, AutoMeld |-> FALSE,
     AutoRiichi |-> FALSE, AutoAgari |-> TRUE, MinConfidence |-> 70,
     DefenseThreshold |-> 15, DelaySeconds |-> 100, ConfirmActions |-> TRUE,
     Strategy |-> "balanced"]

\* what the file holds: nothing (it does not exist), bytes that cannot be
\* read, bytes that are not a JSON object, or a JSON document
Absent == [state |-> "absent"]
Unreadable == [state |-> "unreadable"]
Garbage == [state |-> "garbage"]
Json(doc) == [state |-> "json", doc |-> doc]

\* how a write of the file ends: done; refused before the file is touched
\* (MkdirAll or the open fails); or broken off after the file was truncated
WriteResults == {"ok", "refused", "brokenOff"}

\* ioutil.WriteFile of data over the file
WriteFile(file, data, writeResult) ==
    CASE writeResult = "ok" -> Json(data)
      [] writeResult = "refused" -> file
      [] writeResult = "brokenOff" -> Garbage

Outcome(config, file, err) == [config |-> config, file |-> file, err |-> err]

SaveDefaultConfig(active, file, writeResult) ==
    IF writeResult # "ok"
    THEN Outcome(active, WriteFile(file, Marshal(defaultConfigFile), writeResult), "write")
    ELSE Outcome(ToConfig(defaultConfigFile), WriteFile(file, Marshal(defaultConfigFile), writeResult), "nil")

SaveAutoPlayerConfig(active, file, writeResult) ==
    IF writeResult # "ok"
    THEN Outcome(active, WriteFile(file, Marshal(ToConfigFile(active)), writeResult), "write")
    ELSE Outcome(active, WriteFile(file, Marshal(ToConfigFile(active)), writeResult), "nil")

\* LoadAutoPlayerConfig, were it to activate the file before validating it
LoadAutoPlayerConfig_ApplyFirst(active, file, writeResult) ==
    IF file.state = "absent" THEN SaveDefaultConfig(active, file, writeResult)
    ELSE IF file.state = "unreadable" THEN Outcome(active, file, "read")
    ELSE IF file.state = "garbage" THEN Outcome(active, file, "parse")
    ELSE Outcome(ToConfig(Unmarshal(file.doc)), file, validateConfig(Unmarshal(file.doc)))

LoadAutoPlayerConfig(active, file, writeResult) ==
    IF file.state = "absent" THEN SaveDefaultConfig(active, file, writeResult)
    ELSE IF file.state = "unreadable" THEN Outcome(active, file, "read")
    ELSE IF file.state = "garbage" THEN Outcome(active, file, "parse")
    ELSE IF validateConfig(Unmarshal(file.doc)) # "nil"
    THEN Outcome(active, file, validateConfig(Unmarshal(file.doc)))
    ELSE Outcome(ToConfig(Unmarshal(file.doc)), file, "nil")

ResetAutoPlayerConfig(active, file, writeResult) ==
    SaveDefaultConfig(active, file, writeResult)

---------------------------------------------------------------------------
(* State machine of the configuration store *)

\* configurations handed to SetAutoPlayerConfig and written into the file by
\* hand while the store is studied; some break a range or the strategy enum
StoreConfigs ==
    {[defaultAutoPlayerConfig EXCEPT !.Enabled = e, !.MinConfidence = m,
                                     !.DefenseThreshold = d,
                                     !.DelaySeconds = s, !.Strategy = t] :
        e \in BOOLEAN, m \in {70, 150}, d \in {15, 0 - 10}, s \in {100, 2000},
        t \in {"balanced", "aggressive", "random"}}

\* documents an editor leaves in the file: full ones, and one that sets two
\* keys only
StoreDocs ==
    {Marshal(ToConfigFile(config)) : config \in StoreConfigs}
        \cup {[strategy |-> "aggressive", enabled |-> TRUE]}

FileContents == {Absent, Unreadable, Garbage} \cup {Json(doc) : doc \in StoreDocs}

\* the user or another program changes the file
EditConfigFile(content) ==
    /\ pc = "idle"
    /\ configPath' = content
    /\ UNCHANGED <<autoPlayerConfig, pc, cfgOp, decideVars, execVars, raceVars, loopVars, wireVars>>

StoreCall(op, outcome) ==
    /\ pc = "idle"
    /\ pc' = "stored"
    /\ autoPlayerConfig' = outcome.config
    /\ configPath' = outcome.file
    /\ cfgOp' = [op |-> op, err |-> outcome.err, before |-> autoPlayerConfig, file |-> configPath]
    /\ UNCHANGED <<decideVars, execVars, raceVars, loopVars, wireVars>>

Load ==
    \E writeResult \in WriteResults :
        StoreCall("Load", LoadAutoPlayerConfig(autoPlayerConfig, configPath, writeResult))

Save ==
    \E writeResult \in WriteResults :
        StoreCall("Save", SaveAutoPlayerConfig(autoPlayerConfig, configPath, writeResult))

Reset ==
    \E writeResult \in WriteResults :
        StoreCall("Reset", ResetAutoPlayerConfig(autoPlayerConfig, configPath, writeResult))

StoreReturn ==
    /\ pc = "stored"
    /\ pc' = "idle"
    /\ cfgOp' = NoOp
    /\ UNCHANGED <<autoPlayerConfig, configPath, decideVars, execVars, raceVars, loopVars, wireVars>>

NextConfig ==
    \/ \E config \in StoreConfigs : SetAutoPlayerConfig(config)
    \/ \E enabled \in BOOLEAN : SetAutoPlayerEnabled(enabled)
    \/ ToggleAutoPlayer
    \/ \E content \in FileContents : EditConfigFile(content)
    \/ Load
    \/ Save
    \/ Reset
    \/ StoreReturn

SpecConfig == Init /\ [][NextConfig]_vars

---------------------------------------------------------------------------
(* Properties of the configuration store, checked under SpecConfig *)

\* the configuration invariants
ValidConfig(config) ==
    /\ config.MinConfidence \in 0..100
    /\ config.DefenseThreshold \in 0..100
    /\ config.DelaySeconds \in 0..1000
    /\ config.Strategy \in Strategies

Loaded == pc = "stored" /\ cfgOp.op = "Load"

\* the file Load found cannot be activated
Unloadable(file) ==
    \/ file.state \in {"unreadable", "garbage"}
    \/ file.state = "json" /\ ~ValidConfig(Unmarshal(file.doc))

\* C14: after any sequence of Load, Set, SetEnabled, Toggle and Reset the
\* active configuration satisfies the configuration invariants; Set rejects
\* an invalid candidate without activating it.
C14_ActiveConfigValid == ValidConfig(autoPlayerConfig)

\* C15: a Load of a file that cannot be read or parsed, or that fails
\* validation, returns an error and leaves the active configuration as it was
\* before the call; whenever Load returns an error nothing was activated.
C15_FailedLoadKeepsActive ==
    Loaded =>
        /\ Unloadable(cfgOp.file) => cfgOp.err # "nil"
        /\ cfgOp.err # "nil" => autoPlayerConfig = cfgOp.before

\* a file that parses but fails validation is loaded while the active
\* configuration differs from it in the broken field
C15_Witness ==
    /\ Loaded
    /\ cfgOp.file.state = "json"
    /\ ~ValidConfig(Unmarshal(cfgOp.file.doc))
    /\ cfgOp.err = "strategy"
    /\ cfgOp.before.Strategy = "aggressive"
    /\ cfgOp.before.Enabled # Unmarshal(cfgOp.file.doc).Enabled

---------------------------------------------------------------------------
(* validateConfig as a function of its candidate *)

\* candidates: every number below, at, inside and above its range, valid and
\* invalid strategies, and every setting of the five switches
ValidateCandidates ==
    [Enabled : BOOLEAN, AutoDiscard : BOOLEAN, AutoMeld : BOOLEAN,
     AutoRiichi : BOOLEAN, AutoAgari : BOOLEAN, ConfirmActions : BOOLEAN,
     MinConfidence : {0 - 1, 0, 70, 100, 101},
     DefenseThreshold : {0 - 1, 0, 15, 100, 101},
     DelaySeconds : {0 - 1, 0, 1000, 1001},
     Strategy : {"aggressive", "balanced", "defensive", "random", ""}]

Candidate(config) == [op |-> "candidate", config |-> config, err |-> ""]

InitCandidate ==
    /\ InitEngine /\ InitRace /\ InitNoLoop /\ InitWire
    /\ configPath = Absent
    /\ cfgOp \in {Candidate(config) : config \in ValidateCandidates}

Validate ==
    /\ pc = "idle"
    /\ cfgOp.op = "candidate"
    /\ pc' = "validated"
    /\ cfgOp' = [cfgOp EXCEPT !.op = "Validate", !.err = validateConfig(cfgOp.config)]
    /\ UNCHANGED <<autoPlayerConfig, configPath, decideVars, execVars, raceVars, loopVars, wireVars>>

NextValidate == Validate

SpecValidate == InitCandidate /\ [][NextValidate]_vars

Validated == pc = "validated" /\ cfgOp.op = "Validate"

MinConfidenceOk(config) == 0 <= config.MinConfidence /\ config.MinConfidence <= 100
DefenseThresholdOk(config) == 0 <= config.DefenseThreshold /\ config.DefenseThreshold <= 100
DelaySecondsOk(config) == 0 <= config.DelaySeconds /\ config.DelaySeconds <= 1000
StrategyOk(config) == config.Strategy \in Strategies

\* the candidate with every switch off
SwitchesOff(config) ==
    [config EXCEPT !.Enabled = FALSE, !.AutoDiscard = FALSE,
                   !.AutoMeld = FALSE, !.AutoRiichi = FALSE,
                   !.AutoAgari = FALSE, !.ConfirmActions = FALSE]

\* C16: validateConfig accepts exactly the candidates whose minConfidence
\* and defenseThreshold are in [0,1], whose delaySeconds is in [0,10] and
\* whose strategy is in the enum; it reports the first violated field in the
\* order minConfidence, defenseThreshold, delaySeconds, strategy; and the
\* switches do not change the verdict.
C16_ValidateVerdict ==
    Validated =>
        LET config == cfgOp.config
            err == cfgOp.err
        IN  /\ err = "nil" <=>
                   /\ MinConfidenceOk(config) /\ DefenseThresholdOk(config)
                   /\ DelaySecondsOk(config) /\ StrategyOk(config)
            /\ err = "minConfidence" <=> ~MinConfidenceOk(config)
            /\ err = "defenseThreshold" <=>
                   MinConfidenceOk(config) /\ ~DefenseThresholdOk(config)
            /\ err = "delaySeconds" <=>
                   /\ MinConfidenceOk(config) /\ DefenseThresholdOk(config)
                   /\ ~DelaySecondsOk(config)
            /\ err = "strategy" <=>
                   /\ MinConfidenceOk(config) /\ DefenseThresholdOk(config)
                   /\ DelaySecondsOk(config) /\ ~StrategyOk(config)
            /\ err = validateConfig(SwitchesOff(config))

\* a candidate that breaks three fields is rejected for the first of them,
\* with minConfidence on its upper bound
C16_Witness ==
    /\ Validated
    /\ cfgOp.config.MinConfidence = 100
    /\ cfgOp.config.DefenseThreshold = 101
    /\ cfgOp.config.DelaySeconds = 0 - 1
    /\ cfgOp.config.Strategy = "random"
    /\ cfgOp.config.Enabled
    /\ cfgOp.err = "defenseThreshold"

---------------------------------------------------------------------------
(* The active configuration under concurrent callers.  autoPlayerConfig   *)
(* is a package variable with no lock: the assignment of                  *)
(* SetAutoPlayerConfig and the return of GetAutoPlayerConfig are copies   *)
(* of a ten-field struct, which other goroutines can interleave with.     *)

\* the fields of AutoPlayerConfig in the order of the struct
FieldOrder ==
    <<"Enabled", "AutoDiscard", "AutoMeld", "AutoRiichi", "AutoAgari",
      "MinConfidence", "DefenseThreshold", "DelaySeconds", "ConfirmActions",
      "Strategy">>

\* configurations written while readers are studied
RaceConfigs ==
    {defaultAutoPlayerConfig,
     [defaultAutoPlayerConfig EXCEPT !.Enabled = TRUE, !.DefenseThreshold = 50,
                                     !.Strategy = "aggressive"]}

\* a reader in the middle of its copy learns of a configuration that
\* becomes the active one while it reads
Noting(config) ==
    IF reader.at = "copy" THEN [reader EXCEPT !.whole = @ \cup {config}] ELSE reader

\* a goroutine enters SetAutoPlayerConfig(config)
SetBegin(config) ==
    /\ pc = "idle"
    /\ writer.at = "out"
    /\ writer' = [at |-> "copy", config |-> config, before |-> autoPlayerConfig, next |-> 1]
    /\ reader' = Noting(config)
    /\ UNCHANGED <<autoPlayerConfig, pc, decideVars, execVars, storeVars, loopVars, wireVars>>

\* autoPlayerConfig = config, one field further
SetCopy ==
    /\ writer.at = "copy"
    /\ autoPlayerConfig' = [autoPlayerConfig EXCEPT ![FieldOrder[writer.next]] = writer.config[FieldOrder[writer.next]]]
    /\ writer' = IF writer.next = Len(FieldOrder) THEN NoThread ELSE [writer EXCEPT !.next = @ + 1]
    /\ UNCHANGED <<pc, reader, decideVars, execVars, storeVars, loopVars, wireVars>>

\* SetAutoPlayerEnabled(enabled) on another goroutine: one store of one field
SetEnabledMeanwhile(enabled) ==
    /\ pc = "idle"
    /\ writer.at = "out"
    /\ autoPlayerConfig' = [autoPlayerConfig EXCEPT !.Enabled = enabled]
    /\ reader' = Noting([autoPlayerConfig EXCEPT !.Enabled = enabled])
    /\ UNCHANGED <<pc, writer, decideVars, execVars, storeVars, loopVars, wireVars>>

\* a goroutine enters GetAutoPlayerConfig, or a decision starts to read
\* ap.config
GetBegin ==
    /\ pc = "idle"
    /\ reader.at = "out"
    /\ reader' = [at |-> "copy", got |-> << >>, next |-> 1,
                  whole |-> IF writer.at = "out" THEN {autoPlayerConfig}
                            ELSE {writer.before, writer.config}]
    /\ UNCHANGED <<autoPlayerConfig, pc, writer, decideVars, execVars, storeVars, loopVars, wireVars>>

\* return autoPlayerConfig, one field further
GetCopy ==
    /\ reader.at = "copy"
    /\ reader' =
        [reader EXCEPT !.got = Append(@, autoPlayerConfig[FieldOrder[reader.next]]),
                       !.next = @ + 1,
                       !.at = IF reader.next = Len(FieldOrder) THEN "done" ELSE "copy"]
    /\ UNCHANGED <<autoPlayerConfig, pc, writer, decideVars, execVars, storeVars, loopVars, wireVars>>

GetReturn ==
    /\ reader.at = "done"
    /\ reader' = NoThread
    /\ UNCHANGED <<autoPlayerConfig, pc, writer, decideVars, execVars, storeVars, loopVars, wireVars>>

NextRace ==
    \/ \E config \in RaceConfigs : SetBegin(config)
    \/ SetCopy
    \/ \E enabled \in BOOLEAN : SetEnabledMeanwhile(enabled)
    \/ GetBegin
    \/ GetCopy
    \/ GetReturn

SpecRace == Init /\ [][NextRace]_vars

\* the fields of a configuration, in order
FieldsOf(config) == [i \in 1..Len(FieldOrder) |-> config[FieldOrder[i]]]

\* C17: reads and writes of the active configuration are serialized: a read
\* that overlaps Set or SetEnabled observes the complete configuration from
\* before the write or the complete one after it, never a mixture.
C17_ReadsAreWhole ==
    reader.at = "done" =>
        \E config \in reader.whole : reader.got = FieldsOf(config)

---------------------------------------------------------------------------
(* The interactive loop: interact reads one token per turn and applies it   *)
(* to the hand as a draw (count mod 3 = 1) or a discard (count mod 3 = 2).  *)

MaxStartCount == 5      \* most tiles in the hand interact starts from
MaxDiscards == 2        \* discards followed before the loop is left alone

\* the tile categories the tokens below name: 4m and 5m
LoopTiles == {3, 4}
LoopSuits == {tile \div 9 : tile \in LoopTiles}

\* tokens typed at the prompt
TileTokens == {"4m", "5m", "0m"}
AutoTokens == {"auto-on", "auto-off", "auto-zz"}
Tokens == TileTokens \cup AutoTokens \cup {"help", "auto-help", "quit", "exit", "x9"}

Parsed(tile, isRedFive, err) == [tile |-> tile, isRedFive |-> isRedFive, err |-> err]

\* util.StrToTile34: rank and suit letter give the index 9*suit + rank - 1,
\* rank 0 is the red five of the suit, anything else is an error
StrToTile34(token) ==
    CASE token = "4m" -> Parsed(3, FALSE, FALSE)
      [] token = "5m" -> Parsed(4, FALSE, FALSE)
      [] token = "0m" -> Parsed(4, TRUE, FALSE)
      [] OTHER -> Parsed(NoTile, FALSE, TRUE)

\* handleAutoPlayerCommand: the automation-control commands act on the
\* active configuration only
handleAutoPlayerCommand(config, input) ==
    CASE input = "auto-on" -> [config EXCEPT !.Enabled = TRUE]
      [] input = "auto-off" -> [config EXCEPT !.Enabled = FALSE]
      [] OTHER -> config

\* handleSpecialCommands: "true", "false", or "exit" when the process ends;
\* autoHandled is what handleAutoPlayerCommand returns
handleSpecialCommands(input, autoHandled) ==
    IF input \in {"help", "auto-help"} THEN "true"
    ELSE IF input \in {"quit", "exit"} THEN "exit"
    ELSE IF input \in AutoTokens THEN (IF autoHandled THEN "true" ELSE "false")
    ELSE "false"

Turn(playerInfo, verdict) == [playerInfo |-> playerInfo, verdict |-> verdict]

\* case 1 of the loop, were the fifth-copy test to lack its continue
interactDraw_FifthCopyFallsThrough(playerInfo, input, autoHandled) ==
    LET special == handleSpecialCommands(input, autoHandled)
        parsed == StrToTile34(input)
        drawn == [playerInfo EXCEPT
                    !.NumRedFives[parsed.tile \div 9] = IF parsed.isRedFive THEN @ + 1 ELSE @,
                    !.LeftTiles34[parsed.tile] = @ - 1,
                    !.HandTiles34[parsed.tile] = @ + 1]
    IN  IF special = "exit" THEN Turn(playerInfo, "exit")
        ELSE IF special = "true" THEN Turn(playerInfo, "command")
        ELSE IF parsed.err THEN Turn(playerInfo, "unparsable")
        ELSE IF playerInfo.HandTiles34[parsed.tile] = 4 THEN Turn(drawn, "fifthCopy")
        ELSE Turn(drawn, "accepted")

\* case 1 of the loop: one token at the draw prompt
interactDraw(playerInfo, input, autoHandled) ==
    LET special == handleSpecialCommands(input, autoHandled)
        parsed == StrToTile34(input)
    IN  IF special = "exit" THEN Turn(playerInfo, "exit")
        ELSE IF special = "true" THEN Turn(playerInfo, "command")
        ELSE IF parsed.err THEN Turn(playerInfo, "unparsable")
        ELSE IF playerInfo.HandTiles34[parsed.tile] = 4 THEN Turn(playerInfo, "fifthCopy")
        ELSE Turn([playerInfo EXCEPT
                     !.NumRedFives[parsed.tile \div 9] = IF parsed.isRedFive THEN @ + 1 ELSE @,
                     !.LeftTiles34[parsed.tile] = @ - 1,
                     !.HandTiles34[parsed.tile] = @ + 1], "accepted")

\* case 2 of the loop: one token at the discard prompt
interactDiscard(playerInfo, input, autoHandled) ==
    LET special == handleSpecialCommands(input, autoHandled)
        parsed == StrToTile34(input)
    IN  IF special = "exit" THEN Turn(playerInfo, "exit")
        ELSE IF special = "true" THEN Turn(playerInfo, "command")
        ELSE IF parsed.err THEN Turn(playerInfo, "unparsable")
        ELSE IF playerInfo.HandTiles34[parsed.tile] = 0 THEN Turn(playerInfo, "absent")
        ELSE Turn([playerInfo EXCEPT
                     !.NumRedFives[parsed.tile \div 9] = IF parsed.isRedFive THEN @ - 1 ELSE @,
                     !.HandTiles34[parsed.tile] = @ - 1,
                     !.DiscardTiles = Append(@, parsed.tile)], "accepted")

RECURSIVE SumOver(_, _)
SumOver(tiles34, tiles) ==
    IF tiles = {} THEN 0
    ELSE LET tile == CHOOSE t \in tiles : TRUE
         IN  tiles34[tile] + SumOver(tiles34, tiles \ {tile})

\* util.CountOfTiles34 of the hand the loop holds
LoopCount(tiles34) == SumOver(tiles34, LoopTiles)

\* the hands analysisHumanTiles hands over
StartHands == {tiles34 \in [LoopTiles -> 0..4] : LoopCount(tiles34) <= MaxStartCount}

NoTurn == [at |-> "prompt", phase |-> "none", input |-> "", verdict |-> "none"]

\* interact is entered: the hand, the tiles left after taking away the hand
\* and the tiles seen elsewhere, and the red fives held
InitInteract ==
    /\ InitEngine /\ InitStore /\ InitRace /\ InitWire
    /\ handTiles34 \in StartHands
    /\ leftTiles34 \in [LoopTiles -> 0..4]
    /\ \A tile \in LoopTiles : leftTiles34[tile] <= 4 - handTiles34[tile]
    /\ numRedFives \in [LoopSuits -> 0..1]
    /\ \A tile \in LoopTiles : tile % 9 = 4 => numRedFives[tile \div 9] <= handTiles34[tile]
    /\ discardTiles = << >>
    /\ loop = NoTurn

playerInfoNow ==
    [HandTiles34 |-> handTiles34, LeftTiles34 |-> leftTiles34,
     NumRedFives |-> numRedFives, DiscardTiles |-> discardTiles]

\* what one pass of the loop leaves behind
LoopTurn(phase, input, autoHandled, turn) ==
    /\ handTiles34' = turn.playerInfo.HandTiles34
    /\ leftTiles34' = turn.playerInfo.LeftTiles34
    /\ numRedFives' = turn.playerInfo.NumRedFives
    /\ discardTiles' = turn.playerInfo.DiscardTiles
    /\ loop' = [at |-> IF turn.verdict = "exit" THEN "exited" ELSE "prompt",
                phase |-> phase, input |-> input, verdict |-> turn.verdict]
    /\ autoPlayerConfig' =
          IF input \in AutoTokens THEN handleAutoPlayerCommand(autoPlayerConfig, input)
          ELSE autoPlayerConfig
    /\ UNCHANGED <<pc, decideVars, execVars, storeVars, raceVars, wireVars>>

\* case 0: the count is no phase of the game
PhaseError ==
    /\ loop.at = "prompt"
    /\ LoopCount(handTiles34) % 3 = 0
    /\ loop' = [at |-> "returned", phase |-> "error", input |-> "", verdict |-> "error"]
    /\ UNCHANGED <<autoPlayerConfig, pc, handTiles34, leftTiles34, numRedFives, discardTiles, decideVars, execVars, storeVars, raceVars, wireVars>>

DrawPrompt ==
    /\ loop.at = "prompt"
    /\ LoopCount(handTiles34) % 3 = 1
    /\ \E input \in Tokens, autoHandled \in BOOLEAN :
          LoopTurn("draw", input, autoHandled, interactDraw(playerInfoNow, input, autoHandled))

DiscardPrompt ==
    /\ loop.at = "prompt"
    /\ LoopCount(handTiles34) % 3 = 2
    /\ Len(discardTiles) < MaxDiscards
    /\ \E input \in Tokens, autoHandled \in BOOLEAN :
          LoopTurn("discard", input, autoHandled, interactDiscard(playerInfoNow, input, autoHandled))

NextInteract ==
    \/ PhaseError
    \/ DrawPrompt
    \/ DiscardPrompt

SpecInteract == InitInteract /\ [][NextInteract]_vars

---------------------------------------------------------------------------
(* Properties of the interactive loop, checked under SpecInteract *)

HandState == <<handTiles34, leftTiles34, numRedFives, discardTiles>>
Remainder == LoopCount(handTiles34) % 3
Rejections == {"command", "unparsable", "fifthCopy", "absent", "exit"}

\* one pass of the loop keeps the phase discipline
PhaseStep ==
    /\ Remainder # 0 => Remainder' # 0
    /\ loop'.at = "returned" => loop = NoTurn
    /\ HandState' # HandState =>
          /\ loop'.verdict = "accepted"
          /\ \/ /\ loop'.phase = "draw"
                /\ Remainder = 1 /\ Remainder' = 2
                /\ LoopCount(handTiles34') = LoopCount(handTiles34) + 1
             \/ /\ loop'.phase = "discard"
                /\ Remainder = 2 /\ Remainder' = 1
                /\ LoopCount(handTiles34') = LoopCount(handTiles34) - 1
    /\ (loop' # loop /\ loop'.verdict \in Rejections) => HandState' = HandState
    /\ (loop' # loop /\ loop'.verdict = "accepted") => HandState' # HandState

\* C20: from a hand whose count mod 3 is 1 or 2 the count mod 3 never
\* becomes 0; an accepted draw happens only at remainder 1 and leaves 2, an
\* accepted discard only at remainder 2 and leaves 1; the phase-error exit
\* is taken only by the hand interact starts from; a rejected input
\* (unparsable, fifth copy, absent tile, special command) leaves the hand,
\* the left tiles, the red fives and the discard log as they were; so no
\* category is ever held more than four or fewer than zero times.
C20_PhaseAlternates ==
    /\ [](\A tile \in LoopTiles : handTiles34[tile] \in 0..4)
    /\ [][PhaseStep]_vars

\* after two draw-discard rounds a fifth copy of a tile is refused at the
\* draw prompt
C20_Witness ==
    /\ Len(discardTiles) = MaxDiscards
    /\ Remainder = 1
    /\ loop.phase = "draw"
    /\ loop.verdict = "fifthCopy"
    /\ \E tile \in LoopTiles : handTiles34[tile] = 4

\* C21: the count of left tiles of a category never becomes negative: a
\* draw of a category is accepted only while undrawn copies of it remain.
C21_LeftNeverNegative ==
    \A tile \in LoopTiles : leftTiles34[tile] >= 0

---------------------------------------------------------------------------
(* The Majsoul action sender: what each Send* call posts to the server *)

MaxPosted == 2          \* requests followed
MaxNow == 2             \* readings of the millisecond clock

ActionTypeRiichi == 4
ActionTypeAgari == 5
ActionTypePass == 6

\* tile arguments: a value below [0,33], the first and last tile, the last
\* tile of a suit and the first honour
WireTiles == {0 - 1, 0, 8, 27, 33}

\* tiles claimed for a meld: a number tile and an honour
MeldTiles == {0, 27}

suits == <<"m", "p", "s", "z">>
Digits == <<"1", "2", "3", "4", "5", "6", "7", "8", "9">>

Tile34ToMajsoulStr(tile34) ==
    IF tile34 < 0 \/ tile34 > 33 THEN ""
    ELSE IF tile34 \div 9 = 3 THEN Digits[(tile34 % 9) + 1] \o "z"
    ELSE Digits[(tile34 % 9) + 1] \o suits[(tile34 \div 9) + 1]

RECURSIVE JoinFrom(_, _)
JoinFrom(parts, i) ==
    IF i > Len(parts) THEN ""
    ELSE (IF i > 1 THEN "|" ELSE "") \o parts[i] \o JoinFrom(parts, i + 1)

formatCombination(tiles) ==
    JoinFrom([i \in 1..Len(tiles) |-> Tile34ToMajsoulStr(tiles[i])], 1)

\* an ActionRequest; a field the literal leaves out has its zero value
ActionRequest(type, tile, combination, pass, timestamp) ==
    [Type |-> type, Tile |-> tile, Combination |-> combination, Pass |-> pass,
     Timestamp |-> timestamp]

\* json.Marshal of an ActionRequest: tile, combination and pass are
\* omitempty, so the body carries them only when they are not zero
MarshalRequest(req) ==
    LET full == [type |-> req.Type, tile |-> req.Tile,
                 combination |-> req.Combination, pass |-> req.Pass,
                 timestamp |-> req.Timestamp]
        keys == {"type", "timestamp"}
                    \cup (IF req.Tile # "" THEN {"tile"} ELSE {})
                    \cup (IF req.Combination # "" THEN {"combination"} ELSE {})
                    \cup (IF req.Pass THEN {"pass"} ELSE {})
    IN  [key \in keys |-> full[key]]

\* how the POST ends: 200, another status, or no response
Transports == {"ok", "status", "failed"}

\* sendAction: the body posted and the error returned
sendAction(req, transport) ==
    [body |-> MarshalRequest(req),
     err |-> IF transport = "ok" THEN "nil" ELSE transport]

\* SendDiscard: the request is built without the tile string
SendDiscard(tile34, now, transport) ==
    sendAction(ActionRequest(ActionTypePass, "", "", FALSE, now), transport)

SendPass(now, transport) ==
    sendAction(ActionRequest(ActionTypePass, "", "", TRUE, now), transport)

SendRiichi(now, transport) ==
    sendAction(ActionRequest(ActionTypeRiichi, "", "", FALSE, now), transport)

SendAgari(now, transport) ==
    sendAction(ActionRequest(ActionTypeAgari, "", "", FALSE, now), transport)

\* SendMeld of a known meld type
SendMeld(meldType, targetTile, combination, now, transport) ==
    sendAction(ActionRequest(SendMeldActionType(meldType), Tile34ToMajsoulStr(targetTile), formatCombination(combination), FALSE, now), transport)

\* the clock does not run backwards
Clock ==
    {now \in 1..MaxNow : posted = << >> \/ now >= posted[Len(posted)].body.timestamp}

\* one Send* call and what it posted
Post(op, tile, sent) ==
    /\ Len(posted) < MaxPosted
    /\ posted' = Append(posted, [op |-> op, tile |-> tile, body |-> sent.body, err |-> sent.err])
    /\ UNCHANGED <<autoPlayerConfig, pc, decideVars, execVars, storeVars, raceVars, loopVars>>

CallSendDiscard ==
    \E tile34 \in WireTiles, now \in Clock, transport \in Transports :
        Post("SendDiscard", tile34, SendDiscard(tile34, now, transport))

CallSendPass ==
    \E now \in Clock, transport \in Transports :
        Post("SendPass", NoTile, SendPass(now, transport))

CallSendRiichi ==
    \E now \in Clock, transport \in Transports :
        Post("SendRiichi", NoTile, SendRiichi(now, transport))

CallSendAgari ==
    \E now \in Clock, transport \in Transports :
        Post("SendAgari", NoTile, SendAgari(now, transport))

CallSendMeld ==
    \E meldType \in 0..2, targetTile \in MeldTiles, now \in Clock, transport \in Transports :
        Post("SendMeld", targetTile, SendMeld(meldType, targetTile, <<targetTile, targetTile, targetTile>>, now, transport))

NextWire ==
    \/ CallSendDiscard
    \/ CallSendPass
    \/ CallSendRiichi
    \/ CallSendAgari
    \/ CallSendMeld

SpecWire == Init /\ [][NextWire]_vars

---------------------------------------------------------------------------
(* Properties of the action sender, checked under SpecWire *)

\* the body without its timestamp
Payload(body) == [key \in DOMAIN body \ {"timestamp"} |-> body[key]]

DiscardsPosted ==
    {i \in 1..Len(posted) : posted[i].op = "SendDiscard" /\ posted[i].tile \in 0..33}
PassesPosted == {i \in 1..Len(posted) : posted[i].op = "SendPass"}

\* C22: the request of SendDiscard(t), t in [0,33], carries the tile field
\* Tile34ToMajsoulStr(t); discards of two different tiles post different
\* requests; and a discard request differs from a SendPass request in more
\* than the pass flag.
C22_DiscardNamesTile ==
    /\ \A i \in DiscardsPosted :
          /\ "tile" \in DOMAIN posted[i].body
          /\ posted[i].body.tile = Tile34ToMajsoulStr(posted[i].tile)
    /\ \A i, j \in DiscardsPosted :
          posted[i].tile # posted[j].tile =>
              Payload(posted[i].body) # Payload(posted[j].body)
    /\ \A i \in DiscardsPosted, j \in PassesPosted :
          \E key \in (DOMAIN posted[i].body \cup DOMAIN posted[j].body) \ {"pass", "timestamp"} :
              \/ key \notin DOMAIN posted[i].body
              \/ key \notin DOMAIN posted[j].body
              \/ posted[i].body[key] # posted[j].body[key]

===========================================================================
